---- MODULE Spec2Model ----
(***************************************************************************)
(* A model of the StockAI dashboard: the valuation classifier              *)
(* (stock_tools.py), the four-node analysis graph (graph_agent.py), the    *)
(* persistent watchlist session and the live table (app_graph.py), and the *)
(* older in-memory watchlist (Backup/app_graph.py).                        *)
(*                                                                         *)
(* Python strings that the code converts (strip, upper, split) are         *)
(* sequences of one-character strings; an Optional value is the empty      *)
(* sequence (None) or a one-element sequence; ratios are in tenths.        *)
(***************************************************************************)
EXTENDS Integers, Sequences, FiniteSets, TLC

VARIABLES
    \* ---- stock_tools.get_valuation ----
    vpc,        \* "input" before the call, "returned" / "raised" after it
    vinfo,      \* what yf.Ticker(symbol).info answers: "fault" or a record
    vresult,    \* the "valuation" entry of the returned dict
    \* ---- graph_agent.crew ----
    pc,         \* the node about to run, "END", or "raised"
    state,      \* the StockState dict threaded through the graph
    llmCalls,   \* the nodes that called llm.invoke in this run
    provCalls,  \* the nodes that called the market-data provider in this run
    faults,     \* the nodes in which an external call raised
    histSeen,   \* what ticker.history answered in fetcher_node
    infoSeen,   \* what ticker.info answered in valuation_node
    \* ---- watchlist session (app_graph.py and Backup/app_graph.py) ----
    app,        \* which script the session runs: "main" or "backup"
    wpc,        \* "boot" before the first script run, then "ready"
    file,       \* watchlist.json on disk
    watchlist,  \* st.session_state.watchlist
    matches,    \* st.session_state["matches"]: <<>> when the key is absent
    lastOp,     \* the handler that ran last, with the symbol it was given
    lastSave,   \* the latest save_watchlist call: "none" yet, "ok", "failed", or
                \* "ok_after_failure" (it succeeded, an earlier one had failed)
    crashed,    \* an exception escaped a handler
    searchSeen, \* what the search provider did in the latest Search & Add
    \* ---- live table ----
    tpc,        \* "building" or "built" or "raised"
    rows,       \* the rows built so far
    obs         \* the provider behaviour met for each row built so far

valVars   == <<vpc, vinfo, vresult>>
pipeVars  == <<pc, state, llmCalls, provCalls, faults, histSeen, infoSeen>>
watchVars == <<app, wpc, file, watchlist, matches, lastOp, lastSave, crashed, searchSeen>>
tableVars == <<tpc, rows, obs>>
vars      == <<valVars, pipeVars, watchVars, tableVars>>

-----------------------------------------------------------------------------
(* Optional values and Python truthiness *)

None == <<>>
Some(x) == <<x>>
IsNone(o) == o = <<>>
Val(o) == o[1]

\* bool(x) of an Optional number: None and 0 are falsy
TruthyNum(o) == ~IsNone(o) /\ Val(o) # 0

\* bool(s) of an Optional string held as a character sequence
TruthyStr(s) == s # <<>>

-----------------------------------------------------------------------------
(* str.upper and str.strip on character sequences *)

Lower == <<"a", "l", "p", "m", "s", "f", "t">>
Upper == <<"A", "L", "P", "M", "S", "F", "T">>

UpperChar(c) ==
    IF \E i \in DOMAIN Lower : Lower[i] = c
    THEN Upper[CHOOSE i \in DOMAIN Lower : Lower[i] = c]
    ELSE c

str_upper(s) == [i \in DOMAIN s |-> UpperChar(s[i])]

RECURSIVE lstrip(_)
lstrip(s) == IF s # <<>> /\ Head(s) = " " THEN lstrip(Tail(s)) ELSE s

RECURSIVE rstrip(_)
rstrip(s) ==
    IF s # <<>> /\ s[Len(s)] = " " THEN rstrip(SubSeq(s, 1, Len(s) - 1)) ELSE s

str_strip(s) == rstrip(lstrip(s))

\* x in list / x not in list
InList(x, l) == \E i \in DOMAIN l : l[i] = x

-----------------------------------------------------------------------------
(* stock_tools.py: get_fundamentals and get_valuation *)

\* Largest P/E and P/B (in tenths) the provider is modelled to answer
MaxPeTenths == 255
MaxPbTenths == 32

\* The thresholds of get_valuation, in tenths: 15, 1.5, 25 and 3
PeUndervalued == 150
PbUndervalued == 15
PeFair == 250
PbFair == 30

PeValues == {None} \cup {Some(v) : v \in -1 .. MaxPeTenths}
PbValues == {None} \cup {Some(v) : v \in -1 .. MaxPbTenths}

\* What yf.Ticker(symbol).info does: raises, or answers trailingPE / priceToBook
InfoAnswers ==
    {[fault |-> TRUE, pe |-> None, pb |-> None]}
    \cup {[fault |-> FALSE, pe |-> pe, pb |-> pb] : pe \in PeValues, pb \in PbValues}

\* get_fundamentals: the peRatio and pbRatio entries; raises when info raises
get_fundamentals(info) ==
    [raised |-> info.fault, peRatio |-> info.pe, pbRatio |-> info.pb]

\* `if not pe or not pb`
ratio_missing(pe, pb) == ~TruthyNum(pe) \/ ~TruthyNum(pb)

\* The if / elif / else over the two present ratios
threshold_status(pe, pb) ==
    IF pe < PeUndervalued /\ pb < PbUndervalued THEN "Undervalued"
    ELSE IF pe < PeFair /\ pb < PbFair THEN "Fairly valued"
    ELSE "Overvalued"

get_valuation(info) ==
    LET fundamentals == get_fundamentals(info)
        pe == fundamentals.peRatio
        pb == fundamentals.pbRatio
    IN  IF fundamentals.raised
        THEN [raised |-> TRUE, valuation |-> ""]
        ELSE IF ratio_missing(pe, pb)
        THEN [raised |-> FALSE, valuation |-> "Data not available"]
        ELSE [raised |-> FALSE, valuation |-> threshold_status(Val(pe), Val(pb))]

ValIdle ==
    /\ vpc = "idle" /\ vinfo = [fault |-> TRUE, pe |-> None, pb |-> None]
    /\ vresult = ""

ValInit ==
    /\ vpc = "input"
    /\ vinfo \in InfoAnswers
    /\ vresult = ""

\* One call of get_valuation(symbol)
CallGetValuation ==
    /\ vpc = "input"
    /\ LET r == get_valuation(vinfo)
       IN  /\ vpc' = IF r.raised THEN "raised" ELSE "returned"
           /\ vresult' = r.valuation
    /\ UNCHANGED vinfo

-----------------------------------------------------------------------------
(* graph_agent.py: the StockState graph AutoSymbol -> Fetcher -> Valuation  *)
(* -> Analysis -> END.  A node returns a partial dict that the graph merges *)
(* into the state; an exception leaving a node leaves crew.invoke.          *)

\* Text the user may type as the query ("" , " ", "aapl")
Queries == {<<>>, <<" ">>, <<"a", "a", "p", "l">>}

\* response.content of the ticker-extraction prompt
SymbolReplies ==
    {<<>>, <<" ">>, <<" ", "a", "a", "p", "l", " ">>, <<"M", "S", "F", "T">>}

\* ticker.history(period="1y") and the chart: raises, empty frame, rows (and
\* then plt.savefig may raise)
HistoryAnswers == {"fault", "empty", "rows", "rows_savefig_fault"}

\* ticker.info in valuation_node: raises, answers no P/E, P/B, ROE, or answers them
NodeInfoAnswers == {"fault", "all_none", "values"}

\* llm.invoke: raises or answers
LlmAnswers == {"fault", "ok"}

NoSymbolText == "No symbol available for valuation."
ValuationUnavailableText == "Valuation data unavailable."
NoDataText == "No data available for analysis."
FetchErrorText == "Error fetching data: e"
LlmText == "response.content"

\* state.get("symbol", "")
StateSymbol == IF IsNone(state.symbol) THEN <<>> ELSE Val(state.symbol)

\* state.get("data", None) is None
StateDataIsNone == state.data \in {"absent", "None"}

PipeIdle ==
    /\ pc = "idle"
    /\ state = [query |-> <<>>, symbol |-> None, data |-> "absent",
                latest_price |-> "absent", chart |-> "absent",
                valuation |-> "absent", analysis |-> "absent"]
    /\ llmCalls = {} /\ provCalls = {} /\ faults = {}
    /\ histSeen = "none" /\ infoSeen = "none"

\* crew.invoke({"query": query})
PipeInit ==
    /\ pc = "AutoSymbol"
    /\ \E q \in Queries :
          state = [query |-> q, symbol |-> None, data |-> "absent",
                   latest_price |-> "absent", chart |-> "absent",
                   valuation |-> "absent", analysis |-> "absent"]
    /\ llmCalls = {} /\ provCalls = {} /\ faults = {}
    /\ histSeen = "none" /\ infoSeen = "none"

\* auto_symbol_node without its empty-query return
auto_symbol_node_always_asks ==
    /\ pc = "AutoSymbol"
    /\ llmCalls' = llmCalls \cup {"AutoSymbol"}
    /\ \E reply \in SymbolReplies :
          state' = [state EXCEPT !.symbol = Some(str_upper(str_strip(reply)))]
    /\ pc' = "Fetcher"
    /\ UNCHANGED <<provCalls, faults, histSeen, infoSeen>>

auto_symbol_node ==
    /\ pc = "AutoSymbol"
    /\ IF state.query = <<>>
       THEN /\ state' = [state EXCEPT !.symbol = Some(<<>>)]
            /\ pc' = "Fetcher"
            /\ UNCHANGED <<llmCalls, faults>>
       ELSE /\ llmCalls' = llmCalls \cup {"AutoSymbol"}
            /\ \E a \in LlmAnswers :
                  IF a = "fault"
                  THEN /\ pc' = "raised"
                       /\ faults' = faults \cup {"AutoSymbol"}
                       /\ UNCHANGED state
                  ELSE /\ \E reply \in SymbolReplies :
                            state' = [state EXCEPT
                                         !.symbol = Some(str_upper(str_strip(reply)))]
                       /\ pc' = "Fetcher"
                       /\ UNCHANGED faults
    /\ UNCHANGED <<provCalls, histSeen, infoSeen>>

fetcher_node ==
    /\ pc = "Fetcher"
    /\ IF StateSymbol = <<>>
       THEN /\ state' = [state EXCEPT !.data = "None", !.latest_price = "None",
                                      !.chart = "None"]
            /\ UNCHANGED <<provCalls, faults, histSeen>>
       ELSE /\ provCalls' = provCalls \cup {"Fetcher"}
            /\ \E h \in HistoryAnswers :
                  /\ histSeen' = h
                  /\ IF h \in {"fault", "rows_savefig_fault"}
                     THEN /\ state' = [state EXCEPT !.data = "None",
                                                    !.latest_price = "None",
                                                    !.chart = "None",
                                                    !.analysis = FetchErrorText]
                          /\ faults' = faults \cup {"Fetcher"}
                     ELSE /\ state' = [state EXCEPT
                                 !.data = h,
                                 !.latest_price = IF h = "rows" THEN "price" ELSE "None",
                                 !.chart = IF h = "rows" THEN "chart.png" ELSE "None"]
                          /\ UNCHANGED faults
    /\ pc' = "Valuation"
    /\ UNCHANGED <<llmCalls, infoSeen>>

valuation_node ==
    /\ pc = "Valuation"
    /\ IF StateSymbol = <<>>
       THEN /\ state' = [state EXCEPT !.valuation = NoSymbolText]
            /\ UNCHANGED <<llmCalls, provCalls, faults, infoSeen>>
       ELSE /\ provCalls' = provCalls \cup {"Valuation"}
            /\ \E i \in NodeInfoAnswers :
                  /\ infoSeen' = i
                  /\ IF i = "fault"
                     THEN /\ state' = [state EXCEPT !.valuation = ValuationUnavailableText]
                          /\ faults' = faults \cup {"Valuation"}
                          /\ UNCHANGED llmCalls
                     ELSE /\ llmCalls' = llmCalls \cup {"Valuation"}
                          /\ \E a \in LlmAnswers :
                                IF a = "fault"
                                THEN /\ state' = [state EXCEPT
                                                     !.valuation = ValuationUnavailableText]
                                     /\ faults' = faults \cup {"Valuation"}
                                ELSE /\ state' = [state EXCEPT !.valuation = LlmText]
                                     /\ UNCHANGED faults
    /\ pc' = "Analysis"
    /\ UNCHANGED histSeen

analysis_node ==
    /\ pc = "Analysis"
    /\ IF StateSymbol = <<>> \/ StateDataIsNone
       THEN /\ state' = [state EXCEPT !.analysis = NoDataText]
            /\ pc' = "END"
            /\ UNCHANGED <<llmCalls, faults>>
       ELSE /\ llmCalls' = llmCalls \cup {"Analysis"}
            /\ \E a \in LlmAnswers :
                  IF a = "fault"
                  THEN /\ pc' = "raised"
                       /\ faults' = faults \cup {"Analysis"}
                       /\ UNCHANGED state
                  ELSE /\ state' = [state EXCEPT !.analysis = LlmText]
                       /\ pc' = "END"
                       /\ UNCHANGED faults
    /\ UNCHANGED <<provCalls, histSeen, infoSeen>>

-----------------------------------------------------------------------------
(* app_graph.py: watchlist.json, load_watchlist, save_watchlist *)

SymAAPL == <<"A", "A", "P", "L">>
Symaapl == <<"a", "a", "p", "l">>
SymMSFT == <<"M", "S", "F", "T">>
Symbols == {SymAAPL, Symaapl, SymMSFT}

\* Longest list of symbols found in watchlist.json at session start
MaxFileLen == 2

\* Two symbols are the same ticker when they agree ignoring case
SameTicker(a, b) == str_upper(a) = str_upper(b)

NoTickerTwice(l) ==
    \A i, j \in DOMAIN l : i # j => ~SameTicker(l[i], l[j])

SymbolLists(n) ==
    {l \in UNION {[1 .. k -> Symbols] : k \in 0 .. n} : NoTickerTwice(l)}

\* watchlist.json: missing, present but open() raises, not JSON, JSON but not a
\* list (such as {"a": 1}), or a JSON list
NotAList == {[kind |-> k, data |-> <<>>] : k \in {"missing", "unreadable", "garbage", "object"}}
ListFile(l) == [kind |-> "list", data |-> l]
FileStates == NotAList \cup {ListFile(l) : l \in SymbolLists(MaxFileLen)}

\* The symbols a file holds: those of its list, none when it holds no list
FileList(f) == IF f.kind = "list" THEN f.data ELSE <<>>

\* load_watchlist with no try / except around open and json.load
load_watchlist_no_except(f) ==
    IF f.kind = "missing" THEN [raised |-> FALSE, value |-> <<>>]
    ELSE IF f.kind \in {"unreadable", "garbage"} THEN [raised |-> TRUE, value |-> <<>>]
    ELSE IF f.kind = "list" THEN [raised |-> FALSE, value |-> f.data]
    ELSE [raised |-> FALSE, value |-> <<>>]

load_watchlist(f) ==
    IF f.kind = "missing"
    THEN [raised |-> FALSE, value |-> <<>>]                 \* os.path.exists is false
    ELSE IF f.kind \in {"unreadable", "garbage"}
    THEN [raised |-> FALSE, value |-> <<>>]                 \* except Exception: pass
    ELSE IF f.kind = "list"
    THEN [raised |-> FALSE, value |-> f.data]               \* isinstance(data, list)
    ELSE [raised |-> FALSE, value |-> <<>>]

\* What a call of save_watchlist meets: the write succeeds, open() raises (the
\* file is left as it was), or json.dump raises after open() truncated the file
SaveOutcomes == {"ok", "open_fault", "dump_fault"}

save_watchlist(wl, outcome) ==
    /\ file' = CASE outcome = "ok" -> ListFile(wl)
                 [] outcome = "open_fault" -> file
                 [] outcome = "dump_fault" -> [kind |-> "garbage", data |-> <<>>]
    /\ lastSave' = IF outcome # "ok" THEN "failed"
                   ELSE IF lastSave \in {"none", "ok"} THEN "ok"
                   ELSE "ok_after_failure"

-----------------------------------------------------------------------------
(* app_graph.py: search_symbol *)

\* Entries the search provider may put in results["quotes"]; <<>> is a key that
\* is missing, None or ""
Quote(sym, short, long, exch, exchName) ==
    [symbol |-> sym, shortname |-> short, longname |-> long,
     exchange |-> exch, exchangeName |-> exchName]

QuoteCatalogue ==
    << Quote(SymAAPL, <<"A", "p">>, <<>>, <<"N", "M", "S">>, <<>>),
       Quote(Symaapl, <<>>, <<"A", " ", "-", " ", "B">>, <<>>, <<>>),
       Quote(SymMSFT, <<"M", "s">>, <<>>, <<>>, <<"N", "Y">>),
       Quote(<<>>, <<"J", "k">>, <<>>, <<>>, <<>>),
       Quote(SymMSFT, <<>>, <<>>, <<"N", "M", "S">>, <<>>) >>

\* Longest "quotes" list the provider answers
MaxQuotes == 2

\* The quotes lists: up to MaxQuotes entries of the catalogue, in its order
QuoteLists ==
    LET picks == {l \in UNION {[1 .. k -> DOMAIN QuoteCatalogue] : k \in 0 .. MaxQuotes} :
                     \A i, j \in DOMAIN l : i < j => l[i] < l[j]}
    IN  {[i \in DOMAIN l |-> QuoteCatalogue[l[i]]] : l \in picks}

\* search(query): raises, or answers a quotes list
SearchAnswers ==
    {[fault |-> TRUE, quotes |-> <<>>]}
    \cup {[fault |-> FALSE, quotes |-> l] : l \in QuoteLists}

\* a or b
Or(a, b) == IF TruthyStr(a) THEN a ELSE b

RECURSIVE usable_matches(_)
usable_matches(quotes) ==
    IF quotes = <<>> THEN <<>>
    ELSE LET q == Head(quotes)
             shortname == Or(q.shortname, q.longname)
             exch == Or(q.exchange, q.exchangeName)
         IN  (IF TruthyStr(q.symbol) /\ TruthyStr(shortname)
              THEN <<[symbol |-> q.symbol, name |-> shortname, exchange |-> exch]>>
              ELSE <<>>)
             \o usable_matches(Tail(quotes))

search_symbol(answer) ==
    IF answer.fault THEN <<>> ELSE usable_matches(answer.quotes)

\* f"{m['symbol']} - {m['name']} ({m['exchange']})"
Label(m) ==
    m.symbol \o <<" ", "-", " ">> \o m.name \o <<" ", "(">>
    \o (IF m.exchange = <<>> THEN <<"N", "o", "n", "e">> ELSE m.exchange) \o <<")">>

StartsWith(s, p) == Len(s) >= Len(p) /\ SubSeq(s, 1, Len(p)) = p

\* s.split(sep)[0]
RECURSIVE split_first(_, _)
split_first(s, sep) ==
    IF s = <<>> \/ StartsWith(s, sep) THEN <<>>
    ELSE <<Head(s)>> \o split_first(Tail(s), sep)

-----------------------------------------------------------------------------
(* The watchlist session.  Streamlit runs the whole script once per user    *)
(* interaction, with at most one button true: a handler below is one run.   *)

Op(op, sym, n, msg) == [op |-> op, sym |-> sym, n |-> n, msg |-> msg]

\* Text typed into "Enter company name or ticker symbol:"
CompanyInputs == {<<>>, <<" ">>, <<" ", "a", " ">>}

\* Text typed into "Add a stock symbol to watchlist:" of the Backup script
NewStockInputs == {<<>>, <<" ">>, <<" ", "a", "a", "p", "l">>, SymAAPL, SymMSFT}

WatchIdle ==
    /\ app = "none" /\ wpc = "idle"
    /\ file = [kind |-> "missing", data |-> <<>>]
    /\ watchlist = <<>> /\ matches = <<>>
    /\ lastOp = Op("none", <<>>, 0, "")
    /\ lastSave = "none" /\ crashed = FALSE /\ searchSeen = "none"

WatchInit ==
    /\ app \in {"main", "backup"}
    /\ wpc = "boot"
    /\ file \in (IF app = "main" THEN FileStates ELSE {[kind |-> "missing", data |-> <<>>]})
    /\ watchlist = <<>> /\ matches = <<>>
    /\ lastOp = Op("none", <<>>, 0, "")
    /\ lastSave = "none" /\ crashed = FALSE /\ searchSeen = "none"

\* app_graph.py, first run: st.session_state.watchlist = load_watchlist()
SessionStart ==
    /\ wpc = "boot" /\ app = "main"
    /\ LET r == load_watchlist(file)
       IN  /\ crashed' = r.raised
           /\ watchlist' = r.value
    /\ wpc' = "ready"
    /\ lastOp' = Op("Load", <<>>, 0, "")
    /\ UNCHANGED <<app, file, matches, lastSave, searchSeen>>

\* Backup/app_graph.py, first run: st.session_state.watchlist = []
BackupSessionStart ==
    /\ wpc = "boot" /\ app = "backup"
    /\ watchlist' = <<>>
    /\ wpc' = "ready"
    /\ lastOp' = Op("Start", <<>>, 0, "")
    /\ UNCHANGED <<app, file, matches, lastSave, crashed, searchSeen>>

\* An ambiguous search that inserts its first match at once
keep_matches_add_first(found, outcome) ==
    /\ matches' = found
    /\ lastOp' = Op("SearchAdd", <<>>, Len(found), "")
    /\ IF ~InList(found[1].symbol, watchlist)
       THEN /\ watchlist' = Append(watchlist, found[1].symbol)
            /\ save_watchlist(watchlist', outcome)
       ELSE UNCHANGED <<watchlist, file, lastSave>>

\* else: st.session_state["matches"] = matches
keep_matches(found, outcome) ==
    /\ matches' = found
    /\ lastOp' = Op("SearchAdd", <<>>, Len(found), "")
    /\ UNCHANGED <<watchlist, file, lastSave>>

\* if st.button("Search & Add"): ...
SearchAndAdd(input, answer, outcome) ==
    /\ wpc = "ready" /\ app = "main" /\ ~crashed
    /\ IF str_strip(input) = <<>>
       THEN /\ lastOp' = Op("SearchAdd", <<>>, 0,
                            "Please enter a company name or symbol.")
            /\ UNCHANGED <<watchlist, file, lastSave, matches, searchSeen>>
       ELSE LET found == search_symbol(answer)
            IN  /\ searchSeen' = IF answer.fault THEN "fault" ELSE "answered"
                /\ IF found = <<>>
                   THEN /\ lastOp' = Op("SearchAdd", <<>>, 0, "No matches found.")
                        /\ UNCHANGED <<watchlist, file, lastSave, matches>>
                   ELSE IF Len(found) = 1
                   THEN LET sym == found[1].symbol
                        IN  IF ~InList(sym, watchlist)
                            THEN /\ watchlist' = Append(watchlist, sym)
                                 /\ save_watchlist(watchlist', outcome)
                                 /\ lastOp' = Op("SearchAdd", sym, 1, "Added to watchlist.")
                                 /\ UNCHANGED matches
                            ELSE /\ lastOp' = Op("SearchAdd", sym, 1,
                                                 "is already in your watchlist.")
                                 /\ UNCHANGED <<watchlist, file, lastSave, matches>>
                   ELSE keep_matches(found, outcome)
    /\ UNCHANGED <<app, wpc, crashed>>

\* The selectbox over st.session_state["matches"] and "Confirm Add"; k is the
\* option the user picked
ConfirmAdd(k, outcome) ==
    /\ wpc = "ready" /\ app = "main" /\ ~crashed
    /\ matches # <<>>
    /\ k \in DOMAIN matches
    /\ LET selected == Label(matches[k])
           sym == split_first(selected, <<" ", "-", " ">>)
       IN  IF ~InList(sym, watchlist)
           THEN /\ watchlist' = Append(watchlist, sym)
                /\ save_watchlist(watchlist', outcome)
                /\ matches' = <<>>
                /\ lastOp' = Op("ConfirmAdd", matches[k].symbol, k, "Added to watchlist.")
           ELSE /\ lastOp' = Op("ConfirmAdd", matches[k].symbol, k,
                                "is already in your watchlist.")
                /\ UNCHANGED <<watchlist, file, lastSave, matches>>
    /\ UNCHANGED <<app, wpc, crashed, searchSeen>>

\* "Clear All" that empties the list in memory only
ClearAll_no_save(outcome) ==
    /\ wpc = "ready" /\ app = "main" /\ ~crashed
    /\ watchlist' = <<>>
    /\ lastOp' = Op("ClearAll", <<>>, 0, "Watchlist cleared.")
    /\ UNCHANGED <<app, wpc, file, lastSave, crashed, matches, searchSeen>>

\* if st.button("Clear All"): ...
ClearAll(outcome) ==
    /\ wpc = "ready" /\ app = "main" /\ ~crashed
    /\ watchlist' = <<>>
    /\ save_watchlist(watchlist', outcome)
    /\ lastOp' = Op("ClearAll", <<>>, 0, "Watchlist cleared.")
    /\ UNCHANGED <<app, wpc, crashed, matches, searchSeen>>

\* Backup/app_graph.py: if st.button("Add Stock"): ...
AddStock(input) ==
    /\ wpc = "ready" /\ app = "backup"
    /\ LET symbol == str_strip(str_upper(input))
       IN  IF symbol # <<>> /\ ~InList(symbol, watchlist)
           THEN /\ watchlist' = Append(watchlist, symbol)
                /\ lastOp' = Op("AddStock", symbol, 0, "added to watchlist!")
           ELSE IF InList(symbol, watchlist)
           THEN /\ lastOp' = Op("AddStock", symbol, 0, "is already in the watchlist.")
                /\ UNCHANGED watchlist
           ELSE /\ lastOp' = Op("AddStock", symbol, 0,
                                "Please enter a valid stock symbol.")
                /\ UNCHANGED watchlist
    /\ UNCHANGED <<app, wpc, file, lastSave, crashed, matches, searchSeen>>

\* list.remove(x): drops the first entry equal to x
RECURSIVE list_remove(_, _)
list_remove(l, x) ==
    IF l = <<>> THEN <<>>
    ELSE IF Head(l) = x THEN Tail(l)
    ELSE <<Head(l)>> \o list_remove(Tail(l), x)

\* Backup/app_graph.py: the selectbox over [""] + watchlist and "Remove Selected
\* Stock"; k = 0 is the "" option, under which the button is not shown
RemoveStock(k) ==
    /\ wpc = "ready" /\ app = "backup"
    /\ watchlist # <<>>
    /\ k \in DOMAIN watchlist
    /\ watchlist' = list_remove(watchlist, watchlist[k])
    /\ lastOp' = Op("RemoveStock", watchlist[k], k, "removed from watchlist.")
    /\ UNCHANGED <<app, wpc, file, lastSave, crashed, matches, searchSeen>>

\* The provider is asked only for a non-blank input, and the disk is written
\* only when a symbol is inserted: elsewhere one answer stands for all
SearchFor(input) ==
    IF str_strip(input) = <<>> THEN {[fault |-> TRUE, quotes |-> <<>>]} ELSE SearchAnswers
SavesFor(saving) == IF saving THEN SaveOutcomes ELSE {"ok"}

WatchFrame == UNCHANGED <<valVars, pipeVars, tableVars>>

NextWatchlist ==
    \/ SessionStart /\ WatchFrame
    \/ BackupSessionStart /\ WatchFrame
    \/ \E input \in CompanyInputs :
          \E answer \in SearchFor(input) :
             \E outcome \in SavesFor(Len(search_symbol(answer)) = 1) :
                SearchAndAdd(input, answer, outcome) /\ WatchFrame
    \/ \E k \in DOMAIN matches, outcome \in SaveOutcomes :
          ConfirmAdd(k, outcome) /\ WatchFrame
    \/ \E outcome \in SaveOutcomes : ClearAll(outcome) /\ WatchFrame
    \/ \E input \in NewStockInputs : AddStock(input) /\ WatchFrame
    \/ \E k \in DOMAIN watchlist : RemoveStock(k) /\ WatchFrame

-----------------------------------------------------------------------------
(* app_graph.py: fetch_stock_row and the live table.  Prices are in cents,  *)
(* ratios in hundredths, so that "{x:.2f}" prints every digit of a value.   *)

\* A table cell: the literal "N/A", or a number printed with two decimals,
\* with an explicit sign for "{x:+.2f}"
NA == [kind |-> "N/A", signed |-> FALSE, cents |-> 0]
Fmt2(x) == [kind |-> "num", signed |-> FALSE, cents |-> x]
FmtSigned2(x) == [kind |-> "num", signed |-> TRUE, cents |-> x]

\* n / d rounded to the nearest integer, for d > 0
RoundDiv(n, d) == (2 * n + d) \div (2 * d)

\* a or b on Optional numbers
OrNum(a, b) == IF TruthyNum(a) THEN a ELSE b

\* ticker.fast_info: reading it raises ("fault"), it is empty / None ("none"),
\* it answers ("dict"), or it answers the price and raises on previous_close
\* ("fault_after_price")
Fast(kind, lp, lc, pc_) ==
    [kind |-> kind, last_price |-> lp, last_close |-> lc, previous_close |-> pc_]
\* ticker.history(period="5d"): raises, or a frame of closes
Hist(fault, closes) == [fault |-> fault, closes |-> closes]
\* a value of ticker.info: missing, a number, or something else (a string)
Num(x) == [kind |-> "num", v |-> x]
Missing == [kind |-> "none", v |-> 0]
NotNumber == [kind |-> "str", v |-> 0]
Info(fault, pe, pb) == [fault |-> fault, trailingPE |-> pe, priceToBook |-> pb]

Behaviour(tfault, fast, hist, info) ==
    [ticker_fault |-> tfault, fast |-> fast, hist |-> hist, info |-> info]

\* The price section: the fast path, then the history fallback
price_section(b) ==
    LET fi == b.fast
        price0 == IF fi.kind \in {"dict", "fault_after_price"}
                  THEN OrNum(fi.last_price, fi.last_close) ELSE None
        prev0 == IF fi.kind = "dict" THEN fi.previous_close ELSE None
        fallback == IsNone(price0) \/ IsNone(prev0)
        closes == b.hist.closes
        n == Len(closes)
        price == IF fallback /\ n > 0 THEN Some(closes[n]) ELSE price0
        prev == IF fallback /\ n > 1 THEN Some(closes[n - 1]) ELSE prev0
    IN  [raised |-> fallback /\ b.hist.fault, price |-> price, prev_close |-> prev]

ratio_cell(x) == IF x.kind = "num" THEN Fmt2(x.v) ELSE NA

EmptyRow(symbol) ==
    [Symbol |-> symbol, Price |-> NA, Change |-> NA, Pct |-> NA, PE |-> NA, PB |-> NA]

\* The body of the outer try of fetch_stock_row
row_body(symbol, b) ==
    LET ps == price_section(b)
        price == ps.price
        prev == ps.prev_close
        change == Val(price) - Val(prev)
        pct == RoundDiv(change * 10000, Val(prev))
        derived == ~IsNone(price) /\ TruthyNum(prev)
    IN  [Symbol |-> symbol,
         Price |-> IF ~IsNone(price) THEN Fmt2(Val(price)) ELSE NA,
         Change |-> IF derived THEN FmtSigned2(change) ELSE NA,
         Pct |-> IF derived THEN FmtSigned2(pct) ELSE NA,
         PE |-> IF b.info.fault THEN NA ELSE ratio_cell(b.info.trailingPE),
         PB |-> IF b.info.fault THEN NA ELSE ratio_cell(b.info.priceToBook)]

\* fetch_stock_row with no outer try / except
fetch_stock_row_no_except(symbol, b) ==
    IF b.ticker_fault \/ price_section(b).raised
    THEN [raised |-> TRUE, row |-> EmptyRow(symbol)]
    ELSE [raised |-> FALSE, row |-> row_body(symbol, b)]

fetch_stock_row(symbol, b) ==
    IF b.ticker_fault \/ price_section(b).raised
    THEN [raised |-> FALSE, row |-> EmptyRow(symbol)]      \* except Exception: pass
    ELSE [raised |-> FALSE, row |-> row_body(symbol, b)]

\* Longest watchlist shown in the live table
MaxRows == 3

NoFast == Fast("none", None, None, None)
FastFault == Fast("fault", None, None, None)
NoInfo == Info(TRUE, Missing, Missing)

\* What the provider may do for one symbol while the table is built
TableBehaviours ==
    { Behaviour(TRUE, NoFast, Hist(FALSE, <<>>), Info(FALSE, Missing, Missing)),
      Behaviour(FALSE, FastFault, Hist(TRUE, <<>>), NoInfo),
      Behaviour(FALSE, Fast("dict", Some(15000), None, Some(14900)), Hist(FALSE, <<>>),
                Info(FALSE, Num(2850), Num(4510))),
      Behaviour(FALSE, NoFast, Hist(FALSE, <<14900, 15000>>),
                Info(FALSE, Missing, Num(120))),
      Behaviour(FALSE, Fast("dict", Some(15000), None, Some(15000)), Hist(TRUE, <<>>),
                NoInfo),
      Behaviour(FALSE, FastFault, Hist(FALSE, <<15000>>),
                Info(FALSE, NotNumber, Num(0))),
      Behaviour(FALSE, Fast("fault_after_price", Some(15000), None, None), Hist(TRUE, <<>>),
                Info(FALSE, Num(2850), Num(4510))) }

\* Every provider call made for the symbol raises
ProviderDown(b) ==
    b.ticker_fault \/ (b.fast.kind = "fault" /\ b.hist.fault /\ b.info.fault)

\* Any list may be in the session: load_watchlist returns the file's list as is
TableLists == UNION {[1 .. k -> Symbols] : k \in 0 .. MaxRows}

TableIdle == tpc = "idle" /\ rows = <<>> /\ obs = <<>>

\* The script reaches `if st.session_state.watchlist:` with some watchlist
TableInit ==
    /\ app = "main" /\ wpc = "ready"
    /\ file = [kind |-> "missing", data |-> <<>>]
    /\ watchlist \in TableLists
    /\ matches = <<>>
    /\ lastOp = Op("none", <<>>, 0, "")
    /\ lastSave = "none" /\ crashed = FALSE /\ searchSeen = "none"
    /\ tpc = "building" /\ rows = <<>> /\ obs = <<>>

\* One element of rows = [fetch_stock_row(sym) for sym in watchlist]
BuildRow(b) ==
    /\ tpc = "building"
    /\ Len(rows) < Len(watchlist)
    /\ LET r == fetch_stock_row(watchlist[Len(rows) + 1], b)
       IN  IF r.raised
           THEN /\ tpc' = "raised"
                /\ UNCHANGED <<rows, obs>>
           ELSE /\ rows' = Append(rows, r.row)
                /\ obs' = Append(obs, b)
                /\ UNCHANGED tpc

\* The comprehension ends and the frame is shown
ShowTable ==
    /\ tpc = "building"
    /\ Len(rows) = Len(watchlist)
    /\ tpc' = "built"
    /\ UNCHANGED <<rows, obs>>

TableFrame ==
    UNCHANGED <<valVars, pipeVars, app, wpc, file, watchlist, matches, lastOp,
                lastSave, crashed, searchSeen>>

NextTable ==
    \/ \E b \in TableBehaviours : BuildRow(b) /\ TableFrame
    \/ ShowTable /\ TableFrame

-----------------------------------------------------------------------------
(* Specifications *)

PipeFrame == UNCHANGED <<valVars, watchVars, tableVars>>

NextPipeline ==
    \/ auto_symbol_node /\ PipeFrame
    \/ fetcher_node /\ PipeFrame
    \/ valuation_node /\ PipeFrame
    \/ analysis_node /\ PipeFrame

\* stock_tools.get_valuation on every answer of the provider
InitValuation == ValInit /\ PipeIdle /\ WatchIdle /\ TableIdle
NextValuation == CallGetValuation /\ UNCHANGED <<pipeVars, watchVars, tableVars>>
SpecValuation == InitValuation /\ [][NextValuation]_vars

\* One run of crew.invoke
InitPipeline == ValIdle /\ PipeInit /\ WatchIdle /\ TableIdle
SpecPipeline == InitPipeline /\ [][NextPipeline]_vars

\* One UI session over the watchlist
InitWatchlist == ValIdle /\ PipeIdle /\ WatchInit /\ TableIdle
SpecWatchlist == InitWatchlist /\ [][NextWatchlist]_vars

\* One rendering of the live table
InitTable == ValIdle /\ PipeIdle /\ TableInit
SpecTable == InitTable /\ [][NextTable]_vars

\* What ticker.fast_info, ticker.history and ticker.info may answer for the one
\* symbol of a single row: each value missing, 0, or a price in cents
RowPrices == {None, Some(0), Some(15000)}
RowFasts ==
    {NoFast, FastFault}
    \cup {Fast("dict", lp, lc, p) : lp \in RowPrices, lc \in RowPrices, p \in RowPrices}
    \cup {Fast("fault_after_price", lp, lc, None) : lp \in RowPrices, lc \in RowPrices}
RowHists ==
    {Hist(TRUE, <<>>)}
    \cup {Hist(FALSE, c) : c \in {<<>>, <<0>>, <<15000>>, <<0, 15000>>, <<15000, 0>>,
                                  <<15000, 15000>>, <<14900, 15000>>}}
RowInfos == {NoInfo, Info(FALSE, Missing, NotNumber), Info(FALSE, Num(0), Num(4510))}
RowBehaviours ==
    {Behaviour(t, f, h, i) : t \in BOOLEAN, f \in RowFasts, h \in RowHists, i \in RowInfos}

\* A watchlist of one symbol
InitRow == ValIdle /\ PipeIdle /\ TableInit /\ Len(watchlist) = 1

NextRow ==
    \/ \E b \in RowBehaviours : BuildRow(b) /\ TableFrame
    \/ ShowTable /\ TableFrame

\* One call of fetch_stock_row on every answer of the provider
SpecRow == InitRow /\ [][NextRow]_vars

-----------------------------------------------------------------------------
(* Properties *)

\* C1: in every state of a watchlist session, no two entries of the in-memory
\* watchlist are equal when compared ignoring case.
C1_NoTickerTwice == wpc = "ready" => NoTickerTwice(watchlist)

\* C2: a fault of an external call in one node never makes crew.invoke raise;
\* the run ends with the earlier nodes' results and a placeholder in the
\* faulting node's slot.
C2_StageFaultIsolated ==
    /\ pc # "raised"
    /\ (pc = "END" /\ "Fetcher" \in faults) =>
          /\ ~IsNone(state.symbol)
          /\ state.data = "None"
          /\ state.analysis \in {FetchErrorText, NoDataText}
    /\ (pc = "END" /\ "Valuation" \in faults) =>
          state.valuation = ValuationUnavailableText

C4_NoInsertUntilConfirmed ==
    [][ /\ (lastOp'.op = "SearchAdd" /\ lastOp'.n > 1) =>
              /\ watchlist' = watchlist /\ file' = file
              /\ Len(matches') = lastOp'.n
        /\ lastOp'.op = "ConfirmAdd" =>
              /\ \E k \in DOMAIN matches : matches[k].symbol = lastOp'.sym
              /\ \/ watchlist' = watchlist /\ file' = file
                 \/ watchlist' = Append(watchlist, lastOp'.sym)
        /\ (matches # <<>> /\ Len(watchlist') > Len(watchlist)) =>
              \/ lastOp'.op = "ConfirmAdd"
              \/ lastOp'.op = "SearchAdd" /\ lastOp'.n = 1
      ]_vars

\* A picked match has just been inserted by Confirm Add
C4_Witness ==
    /\ lastOp.op = "ConfirmAdd" /\ lastOp.msg = "Added to watchlist."
    /\ watchlist # <<>> /\ watchlist[Len(watchlist)] = lastOp.sym
    /\ lastOp.sym = Symaapl

\* C5 as stated: after a run with an empty query the symbol is "", every
\* downstream field is empty or absent, and no collaborator was called.
C5_EmptyQueryAllEmpty ==
    (pc = "END" /\ state.query = <<>>) =>
        /\ StateSymbol = <<>>
        /\ state.data \in {"absent", "None"}
        /\ state.latest_price \in {"absent", "None"}
        /\ state.chart \in {"absent", "None"}
        /\ state.valuation \in {"absent", ""}
        /\ state.analysis \in {"absent", ""}
        /\ llmCalls = {} /\ provCalls = {}

\* C5, amended: a run with an empty query calls neither collaborator and does
\* not raise; it ends with symbol "", no price history, latest price or chart,
\* and the two fixed texts as valuation and analysis.
C5_EmptyQueryShortCircuits ==
    state.query = <<>> =>
        /\ llmCalls = {} /\ provCalls = {} /\ faults = {}
        /\ pc # "raised"
        /\ pc = "END" =>
              /\ state.symbol = Some(<<>>)
              /\ state.data = "None" /\ state.latest_price = "None"
              /\ state.chart = "None"
              /\ state.valuation = NoSymbolText
              /\ state.analysis = NoDataText

C5_Witness == pc = "END" /\ state.query = <<>> /\ state.analysis = NoDataText

C7_LoadNeverFails ==
    /\ ~crashed
    /\ lastOp.op = "Load" => watchlist = FileList(file)

\* The file holds {"a": 1}
C7_Witness ==
    lastOp.op = "Load" /\ file.kind = "object" /\ watchlist = <<>> /\ ~crashed

\* C8: for present ratios the verdict follows the strict thresholds.
C8_StrictThresholds ==
    (vpc = "returned" /\ ~IsNone(vinfo.pe) /\ ~IsNone(vinfo.pb)) =>
        LET pe == Val(vinfo.pe)
            pb == Val(vinfo.pb)
        IN  vresult = IF pe < 150 /\ pb < 15 THEN "Undervalued"
                      ELSE IF pe < 250 /\ pb < 30 THEN "Fairly valued"
                      ELSE "Overvalued"

\* C9: the verdict is "Data not available" exactly when a ratio is absent.
C9_UnavailableIffAbsent ==
    vpc = "returned" =>
        (vresult = "Data not available" <=> (IsNone(vinfo.pe) \/ IsNone(vinfo.pb)))

\* C10: when the Fetch stage produced no price history, the Analysis stage
\* does not call llm.invoke and the analysis text is the fixed no-data text.
C10_NoHistoryNoLlm ==
    (histSeen # "rows" /\ pc \in {"END", "raised"}) =>
        /\ "Analysis" \notin llmCalls
        /\ pc = "END" => state.analysis = NoDataText

\* C11: when the fundamentals are unobtainable (ticker.info raises, or answers
\* no P/E, P/B and ROE), the Valuation stage does not call llm.invoke and the
\* valuation text is the fixed "Valuation data unavailable." text.
C11_NoFundamentalsNoLlm ==
    (infoSeen \in {"fault", "all_none"} /\ pc \in {"Analysis", "END", "raised"}) =>
        /\ "Valuation" \notin llmCalls
        /\ state.valuation = ValuationUnavailableText

\* C12: a Search & Add whose provider call raised is not reported to the user
\* with the message of a search that found nothing.
C12_FaultIsNotNoMatches ==
    (lastOp.op = "SearchAdd" /\ searchSeen = "fault") =>
        lastOp.msg # "No matches found."

\* What the provider gave for a row when a value counts as obtained whenever it
\* is not None, 0 included: the fast path, then the history fallback
OrPresent(a, b) == IF ~IsNone(a) THEN a ELSE b

Obtained(b) ==
    LET fi == b.fast
        price0 == IF fi.kind \in {"dict", "fault_after_price"}
                  THEN OrPresent(fi.last_price, fi.last_close) ELSE None
        prev0 == IF fi.kind = "dict" THEN fi.previous_close ELSE None
        fallback == (IsNone(price0) \/ IsNone(prev0)) /\ ~b.hist.fault
        n == Len(b.hist.closes)
    IN  [price |-> IF fallback /\ n > 0 THEN Some(b.hist.closes[n]) ELSE price0,
         prev_close |-> IF fallback /\ n > 1 THEN Some(b.hist.closes[n - 1]) ELSE prev0]

\* C13: in a row built without an exception, Current Price is shown exactly
\* when a price was obtained, and Change and % Change are shown exactly when
\* both the price and the previous close were obtained, a value of 0 counting
\* as obtained; what was not obtained is "N/A".
C13_DerivedIffBothObtained ==
    \A i \in DOMAIN rows :
        ~(obs[i].ticker_fault \/ price_section(obs[i]).raised) =>
            LET got == Obtained(obs[i])
                both == ~IsNone(got.price) /\ ~IsNone(got.prev_close)
            IN  /\ rows[i].Price # NA <=> ~IsNone(got.price)
                /\ rows[i].Change # NA <=> both
                /\ rows[i].Pct # NA <=> both

=============================================================================
